---- MODULE Spec2Model ----
(***************************************************************************)
(* Model of the Requester class of ParamFinder (requester.ts, the second   *)
(* half of src/packages/frontend/src/components/settings/                  *)
(* AdvancedSettingsSection.tsx, lines 212-502).                            *)
(*                                                                         *)
(* A JavaScript string is modelled as a sequence of UTF-16 code units,     *)
(* each code unit written as a one-element TLA+ string.  The code unit     *)
(* U+00E9 (e with acute accent, two bytes in UTF-8) is written "U+00E9".   *)
(***************************************************************************)
EXTENDS Integers, Sequences, FiniteSets, TLC

NULL == "null#"

(***************************************************************************)
(* String constants of the source.                                         *)
(***************************************************************************)
S_ContentType ==
    <<"C", "o", "n", "t", "e", "n", "t", "-", "T", "y", "p", "e">>
S_contentType ==
    <<"c", "o", "n", "t", "e", "n", "t", "-", "t", "y", "p", "e">>
S_ContentLength ==
    <<"C", "o", "n", "t", "e", "n", "t", "-", "L", "e", "n", "g", "t", "h">>
S_applicationJson ==
    <<"a", "p", "p", "l", "i", "c", "a", "t", "i", "o", "n", "/", "j", "s", "o",
    "n">>
S_applicationForm ==
    <<"a", "p", "p", "l", "i", "c", "a", "t", "i", "o", "n", "/", "x", "-", "w",
    "w", "w", "-", "f", "o", "r", "m", "-", "u", "r", "l", "e", "n", "c", "o",
    "d", "e", "d">>
S_multipartFormData ==
    <<"m", "u", "l", "t", "i", "p", "a", "r", "t", "/", "f", "o", "r", "m", "-",
    "d", "a", "t", "a">>
S_applicationXml ==
    <<"a", "p", "p", "l", "i", "c", "a", "t", "i", "o", "n", "/", "x", "m",
    "l">>
S_textXml ==
    <<"t", "e", "x", "t", "/", "x", "m", "l">>
S_boundaryEq ==
    <<"b", "o", "u", "n", "d", "a", "r", "y", "=">>
S_xmlDecl ==
    <<"<", "?", "x", "m", "l">>
S_partHeader ==
    <<"C", "o", "n", "t", "e", "n", "t", "-", "D", "i", "s", "p", "o", "s", "i",
    "t", "i", "o", "n", ":", " ", "f", "o", "r", "m", "-", "d", "a", "t", "a",
    ";", " ", "n", "a", "m", "e", "=", "\"">>
S_partSep ==
    <<"\"", "\r", "\n", "\r", "\n">>
S_CRLF == <<"\r", "\n">>
S_dashes == <<"-", "-">>
S_cb == <<"c", "b">>
S_amp == <<"&">>
S_eq == <<"=">>
S_true == <<"t", "r", "u", "e">>
S_false == <<"f", "a", "l", "s", "e">>
S_null == <<"n", "u", "l", "l">>

(***************************************************************************)
(* String primitives of the JavaScript runtime, over code-unit sequences.  *)
(***************************************************************************)
UpperCase ==
    <<"A", "B", "C", "D", "E", "F", "G", "H", "I", "J", "K", "L", "M",
      "N", "O", "P", "Q", "R", "S", "T", "U", "V", "W", "X", "Y", "Z">>
LowerCase ==
    <<"a", "b", "c", "d", "e", "f", "g", "h", "i", "j", "k", "l", "m",
      "n", "o", "p", "q", "r", "s", "t", "u", "v", "w", "x", "y", "z">>
Digits == <<"0", "1", "2", "3", "4", "5", "6", "7", "8", "9">>

Range(s) == {s[i] : i \in DOMAIN s}

IsDigit(c) == c \in Range(Digits)

\* String.prototype.toLowerCase (ASCII letters; U+00E9 is already lower case)
LowerChar(c) ==
    IF c \in Range(UpperCase)
    THEN LowerCase[CHOOSE i \in DOMAIN UpperCase : UpperCase[i] = c]
    ELSE c

toLowerCase(s) == [i \in DOMAIN s |-> LowerChar(s[i])]

\* s.startsWith(p) at offset i (1-based): p occurs in s at position i
OccursAt(s, p, i) ==
    /\ i >= 1
    /\ i + Len(p) - 1 <= Len(s)
    /\ \A k \in 1..Len(p) : s[i + k - 1] = p[k]

startsWith(s, p) == OccursAt(s, p, 1)

endsWith(s, p) == OccursAt(s, p, Len(s) - Len(p) + 1)

\* String.prototype.includes
includes(s, p) == \E i \in 1..(Len(s) + 1) : OccursAt(s, p, i)

\* String.prototype.indexOf, 1-based; 0 when absent (JavaScript: -1)
indexOf(s, p) ==
    IF includes(s, p)
    THEN CHOOSE i \in 1..(Len(s) + 1) :
             /\ OccursAt(s, p, i)
             /\ \A j \in 1..(i - 1) : ~OccursAt(s, p, j)
    ELSE 0

\* String.prototype.slice(from0, to0) with 0-based, end-exclusive indices
slice(s, from0, to0) == SubSeq(s, from0 + 1, to0)

IsWhite(c) == c \in {" ", "\r", "\n", "\t"}

\* String.prototype.trim
RECURSIVE trimStart(_)
trimStart(s) ==
    IF s # <<>> /\ IsWhite(Head(s)) THEN trimStart(Tail(s)) ELSE s

RECURSIVE trimEnd(_)
trimEnd(s) ==
    IF s # <<>> /\ IsWhite(s[Len(s)])
    THEN trimEnd(SubSeq(s, 1, Len(s) - 1))
    ELSE s

trim(s) == trimEnd(trimStart(s))

\* Array.prototype.join over a sequence of strings
RECURSIVE join(_, _)
join(parts, sep) ==
    IF parts = <<>> THEN <<>>
    ELSE IF Len(parts) = 1 THEN parts[1]
    ELSE parts[1] \o sep \o join(Tail(parts), sep)

\* Number.prototype.toString for a non-negative integer
RECURSIVE toString(_)
toString(n) ==
    IF n < 10 THEN <<Digits[n + 1]>>
    ELSE toString(n \div 10) \o <<Digits[(n % 10) + 1]>>

\* The number of bytes of the UTF-8 encoding of one code unit of the model
Utf8Bytes(c) == IF c = "U+00E9" THEN 2 ELSE 1

\* The byte length of a string on the wire (UTF-8)
RECURSIVE byteLength(_)
byteLength(s) ==
    IF s = <<>> THEN 0 ELSE Utf8Bytes(Head(s)) + byteLength(Tail(s))

(***************************************************************************)
(* encodeURIComponent: the unreserved characters pass, every other code    *)
(* unit becomes the %XX escapes of its UTF-8 bytes.                        *)
(***************************************************************************)
Unreserved ==
    Range(UpperCase) \cup Range(LowerCase) \cup Range(Digits)
        \cup {"-", "_", ".", "!", "~", "*", "'", "(", ")"}

PercentEscape ==
    (" " :> <<"%", "2", "0">>) @@ ("\"" :> <<"%", "2", "2">>) @@
    ("%" :> <<"%", "2", "5">>) @@ ("&" :> <<"%", "2", "6">>) @@
    ("+" :> <<"%", "2", "B">>) @@ ("," :> <<"%", "2", "C">>) @@
    ("/" :> <<"%", "2", "F">>) @@ (":" :> <<"%", "3", "A">>) @@
    (";" :> <<"%", "3", "B">>) @@ ("<" :> <<"%", "3", "C">>) @@
    ("=" :> <<"%", "3", "D">>) @@ (">" :> <<"%", "3", "E">>) @@
    ("?" :> <<"%", "3", "F">>) @@ ("\\" :> <<"%", "5", "C">>) @@
    ("{" :> <<"%", "7", "B">>) @@ ("}" :> <<"%", "7", "D">>) @@
    ("$" :> <<"%", "2", "4">>) @@
    ("\r" :> <<"%", "0", "D">>) @@ ("\n" :> <<"%", "0", "A">>) @@
    ("\t" :> <<"%", "0", "9">>) @@
    ("U+00E9" :> <<"%", "C", "3", "%", "A", "9">>)

RECURSIVE encodeURIComponent(_)
encodeURIComponent(s) ==
    IF s = <<>> THEN <<>>
    ELSE (IF Head(s) \in Unreserved THEN <<Head(s)>> ELSE PercentEscape[Head(s)])
             \o encodeURIComponent(Tail(s))

(***************************************************************************)
(* JSON.parse and JSON.stringify.  A parsed value is a record              *)
(* [t, s, kv]: t is "obj" (kv the members in property order), "str"        *)
(* (s the decoded text), "num" (s the canonical text of an integer) or     *)
(* "lit" (s one of true, false, null).  The grammar covers objects,        *)
(* strings with the escapes \" \\ \/ \n \r \t, integers and the three      *)
(* literals; arrays, fractions, exponents and \u escapes do not occur in   *)
(* the bodies the model draws.  Keys are not array indices, so property    *)
(* order is insertion order.                                               *)
(***************************************************************************)
JFail == [ok |-> FALSE, v |-> <<>>, next |-> 0]
JOk(v, next) == [ok |-> TRUE, v |-> v, next |-> next]
JObj(kv) == [t |-> "obj", s |-> <<>>, kv |-> kv]
JStr(s) == [t |-> "str", s |-> s, kv |-> <<>>]
JNum(s) == [t |-> "num", s |-> s, kv |-> <<>>]
JLit(s) == [t |-> "lit", s |-> s, kv |-> <<>>]

HasKey(kv, k) == \E i \in DOMAIN kv : kv[i].k = k

\* obj[k] = v on the member list of an object: overwrite in place, or append
SetKey(kv, k, v) ==
    IF HasKey(kv, k)
    THEN [i \in DOMAIN kv |-> IF kv[i].k = k THEN [k |-> k, v |-> v] ELSE kv[i]]
    ELSE Append(kv, [k |-> k, v |-> v])

RECURSIVE SkipWs(_, _)
SkipWs(s, i) ==
    IF i <= Len(s) /\ IsWhite(s[i]) THEN SkipWs(s, i + 1) ELSE i

Unescape ==
    ("\"" :> "\"") @@ ("\\" :> "\\") @@ ("/" :> "/") @@
    ("n" :> "\n") @@ ("r" :> "\r") @@ ("t" :> "\t")

\* the characters of a string literal from position i (after the opening quote)
RECURSIVE ScanString(_, _, _)
ScanString(s, i, acc) ==
    IF i > Len(s) THEN JFail
    ELSE IF s[i] = "\"" THEN JOk(acc, i + 1)
    ELSE IF s[i] = "\\"
         THEN IF i + 1 <= Len(s) /\ s[i + 1] \in DOMAIN Unescape
              THEN ScanString(s, i + 2, Append(acc, Unescape[s[i + 1]]))
              ELSE JFail
    ELSE IF s[i] \in {"\r", "\n", "\t"} THEN JFail
    ELSE ScanString(s, i + 1, Append(acc, s[i]))

RECURSIVE ScanDigits(_, _)
ScanDigits(s, i) ==
    IF i <= Len(s) /\ IsDigit(s[i]) THEN ScanDigits(s, i + 1) ELSE i

\* an integer literal at position i: -? (0 | [1-9][0-9]*)
ParseNumber(s, i) ==
    LET d == IF s[i] = "-" THEN i + 1 ELSE i
        e == IF d <= Len(s) /\ s[d] = "0" THEN d + 1 ELSE ScanDigits(s, d)
        text == SubSeq(s, i, e - 1)
    IN  IF e = d THEN JFail
        ELSE JOk(JNum(IF text = <<"-", "0">> THEN <<"0">> ELSE text), e)

RECURSIVE ParseValue(_, _)
RECURSIVE ParseMembers(_, _, _)
ParseValue(s, i) ==
    IF i > Len(s) THEN JFail
    ELSE IF s[i] = "{"
         THEN LET j == SkipWs(s, i + 1)
              IN  IF j <= Len(s) /\ s[j] = "}" THEN JOk(JObj(<<>>), j + 1)
                  ELSE ParseMembers(s, j, <<>>)
    ELSE IF s[i] = "\""
         THEN LET r == ScanString(s, i + 1, <<>>)
              IN  IF r.ok THEN JOk(JStr(r.v), r.next) ELSE JFail
    ELSE IF s[i] = "-" \/ IsDigit(s[i]) THEN ParseNumber(s, i)
    ELSE IF OccursAt(s, S_true, i) THEN JOk(JLit(S_true), i + Len(S_true))
    ELSE IF OccursAt(s, S_false, i) THEN JOk(JLit(S_false), i + Len(S_false))
    ELSE IF OccursAt(s, S_null, i) THEN JOk(JLit(S_null), i + Len(S_null))
    ELSE JFail

\* the members of an object from position j (the opening quote of a key)
ParseMembers(s, j, kv) ==
    IF j > Len(s) \/ s[j] # "\"" THEN JFail
    ELSE LET key == ScanString(s, j + 1, <<>>)
             c == IF key.ok THEN SkipWs(s, key.next) ELSE 0
             val == IF key.ok /\ c <= Len(s) /\ s[c] = ":"
                    THEN ParseValue(s, SkipWs(s, c + 1))
                    ELSE JFail
             e == IF val.ok THEN SkipWs(s, val.next) ELSE 0
         IN  IF ~val.ok \/ e > Len(s) THEN JFail
             ELSE IF s[e] = ","
                  THEN ParseMembers(s, SkipWs(s, e + 1), SetKey(kv, key.v, val.v))
             ELSE IF s[e] = "}"
                  THEN JOk(JObj(SetKey(kv, key.v, val.v)), e + 1)
             ELSE JFail

\* JSON.parse: [ok, v]; ok = FALSE is the SyntaxError
JSONparse(s) ==
    LET r == ParseValue(s, SkipWs(s, 1))
    IN  IF r.ok /\ SkipWs(s, r.next) > Len(s)
        THEN [ok |-> TRUE, v |-> r.v]
        ELSE [ok |-> FALSE, v |-> JLit(S_null)]

EscapeChar(c) ==
    CASE c = "\"" -> <<"\\", "\"">>
      [] c = "\\" -> <<"\\", "\\">>
      [] c = "\n" -> <<"\\", "n">>
      [] c = "\r" -> <<"\\", "r">>
      [] c = "\t" -> <<"\\", "t">>
      [] OTHER -> <<c>>

RECURSIVE EscapeString(_)
EscapeString(s) ==
    IF s = <<>> THEN <<>> ELSE EscapeChar(Head(s)) \o EscapeString(Tail(s))

Quote(s) == <<"\"">> \o EscapeString(s) \o <<"\"">>

RECURSIVE JSONstringify(_)
JSONstringify(v) ==
    IF v.t = "obj"
    THEN <<"{">>
         \o join([i \in DOMAIN v.kv |->
                     Quote(v.kv[i].k) \o <<":">> \o JSONstringify(v.kv[i].v)],
                 <<",">>)
         \o <<"}">>
    ELSE IF v.t = "str" THEN Quote(v.s)
    ELSE v.s

(***************************************************************************)
(* Body sniffers                                                           *)
(***************************************************************************)
isJSONBody(body) == JSONparse(body).ok

\* one repetition of the group of /^(?:[^=&]*=[^=&]*&?)*$/
IsQueryGroup(g) ==
    LET core == IF g # <<>> /\ g[Len(g)] = "&" THEN SubSeq(g, 1, Len(g) - 1) ELSE g
    IN  /\ Cardinality({i \in DOMAIN core : core[i] = "="}) = 1
        /\ \A i \in DOMAIN core : core[i] # "&"

RECURSIVE isQueryBody(_)
isQueryBody(body) ==
    \/ body = <<>>
    \/ \E i \in 1..Len(body) :
          /\ IsQueryGroup(SubSeq(body, 1, i))
          /\ isQueryBody(SubSeq(body, i + 1, Len(body)))

isXMLBody(body) ==
    LET trimmedBody == trim(body)
    IN  /\ \/ startsWith(trimmedBody, S_xmlDecl)
           \/ /\ Len(trimmedBody) >= 2
              /\ trimmedBody[1] = "<"
              /\ trimmedBody[2] \notin {"?", "!"}
        /\ includes(trimmedBody, <<">">>)

(***************************************************************************)
(* State.                                                                  *)
(*   config             this.paramMiner.config, fixed for a mining session *)
(*   bodyType           Requester.bodyType                                 *)
(*   multipartBoundary  Requester.multipartBoundary                        *)
(*   now                the last reading of Date.now()                     *)
(*   calls              the sendRequestWithParams calls, by call number:   *)
(*                      where each stands and what it has done so far      *)
(*   last               what the synchronous part of the most recent call  *)
(*                      was given and what it left behind                  *)
(***************************************************************************)
VARIABLES config, bodyType, multipartBoundary, now, calls, last

vars == <<config, bodyType, multipartBoundary, now, calls, last>>

(***************************************************************************)
(* Objects.  A Request object is a record [id, context, query, body,       *)
(* headers] whose headers field is a reference to a header object          *)
(* (Record<string, string[]>: a function from header names to value        *)
(* sequences).  A frame f is the memory one sendRequestWithParams call     *)
(* works on up to its first await:                                         *)
(*   f.req   the Request objects, by reference                             *)
(*   f.hdr   the header objects, by reference                              *)
(*   f.bodyType, f.multipartBoundary   the fields of the Requester         *)
(*   f.err   the message of the Error thrown, NULL while none is thrown    *)
(*   f.detectRan   whether determineBodyType was entered                   *)
(*   f.cb    the cacheBusterParam built, <<>> when none was built          *)
(* The caller's request is object 1 with header object 1.                  *)
(***************************************************************************)
CallerRef == 1
CopyRef == 2

NoBoundary == <<>>    \* multipartBoundary = null ((.+) never captures "")

Frame(request, bt, mb) ==
    [req |-> (CallerRef :> [request EXCEPT !.headers = CallerRef]),
     hdr |-> (CallerRef :> request.headers),
     bodyType |-> bt,
     multipartBoundary |-> mb,
     err |-> NULL,
     detectRan |-> FALSE,
     cb |-> <<>>]

\* the request object r of frame f, its headers read through the reference
Deref(f, r) == [f.req[r] EXCEPT !.headers = f.hdr[f.req[r].headers]]

Throw(f, message) == [f EXCEPT !.err = message]

\* request.headers[name] = values
SetHeader(f, r, name, values) ==
    LET h == f.req[r].headers
    IN  [f EXCEPT !.hdr[h] = (name :> values) @@ f.hdr[h]]

\* delete request.headers[name]
DeleteHeader(f, r, name) ==
    LET h == f.req[r].headers
    IN  [f EXCEPT !.hdr[h] = [n \in (DOMAIN f.hdr[h]) \ {name} |-> f.hdr[h][n]]]

\* request.headers[name]?.[0], <<>> standing for undefined (only its
\* truthiness is read, and "" is as falsy as undefined)
FirstHeaderValue(f, r, name) ==
    LET hd == f.hdr[f.req[r].headers]
    IN  IF name \in DOMAIN hd /\ hd[name] # <<>> THEN hd[name][1] ELSE <<>>

\* lines 263-268: requestCopy = {...request, id, context, headers: {...}}
CloneRequestAliased(f, id, context) ==
    [f EXCEPT !.req = (CopyRef :> [f.req[CallerRef] EXCEPT
                                      !.id = id,
                                      !.context = IF context = NULL
                                                  THEN "discovery" ELSE context])
                      @@ f.req]

CloneRequest(f, id, context) ==
    [f EXCEPT !.req = (CopyRef :> [f.req[CallerRef] EXCEPT
                                      !.id = id,
                                      !.context = IF context = NULL
                                                  THEN "discovery" ELSE context,
                                      !.headers = CopyRef])
                      @@ f.req,
              !.hdr = (CopyRef :> f.hdr[f.req[CallerRef].headers]) @@ f.hdr]

\* parameters.map(p => `${encodeURIComponent(p.name)}=${...(p.value)}`).join("&")
EncodePairs(parameters) ==
    join([i \in DOMAIN parameters |->
             encodeURIComponent(parameters[i].name) \o S_eq
                 \o encodeURIComponent(parameters[i].value)],
         S_amp)

handleQueryParameters(f, r, parameters) ==
    LET queryParams == EncodePairs(parameters)
        query == f.req[r].query
    IN  [f EXCEPT !.req[r].query =
            IF query # <<>> THEN query \o S_amp \o queryParams ELSE queryParams]

\* t1, t2: the two readings of Date.now()
handleCacheBusterParameter(f, r, t1, t2) ==
    LET cacheBusterParam == S_cb \o toString(t1) \o S_eq \o toString(t2)
        query == f.req[r].query
    IN  [f EXCEPT !.req[r].query =
            IF query # <<>> THEN query \o S_amp \o cacheBusterParam
                            ELSE cacheBusterParam,
                  !.cb = cacheBusterParam]

RECURSIVE handleHeaderParameters(_, _, _)
handleHeaderParameters(f, r, parameters) ==
    IF parameters = <<>> THEN f
    ELSE handleHeaderParameters(
             SetHeader(f, r, Head(parameters).name, <<Head(parameters).value>>),
             r, Tail(parameters))

(***************************************************************************)
(* Body encoders                                                           *)
(***************************************************************************)
\* parameters.reduce((acc, param) => ({...acc, [param.name]: param.value}), {})
RECURSIVE InjectKeys(_, _)
InjectKeys(kv, parameters) ==
    IF parameters = <<>> THEN kv
    ELSE InjectKeys(SetKey(kv, Head(parameters).name, JStr(Head(parameters).value)),
                    Tail(parameters))

\* Object.assign(target, source) on member lists
RECURSIVE ObjectAssign(_, _)
ObjectAssign(target, source) ==
    IF source = <<>> THEN target
    ELSE ObjectAssign(SetKey(target, Head(source).k, Head(source).v), Tail(source))

KeyValue(kv, k) == kv[CHOOSE i \in DOMAIN kv : kv[i].k = k].v

\* JSONPath({path, json, wrap: false}) followed by the guarded Object.assign,
\* for the paths "$" and "$.<name>": the body object after the merge.  Any
\* other outcome of the lookup (no such member, a member that is no object,
\* a root that is no object) leaves the body object as it is.
AssignAtPath(bodyObj, path, paramsToInject) ==
    IF bodyObj.t # "obj" THEN bodyObj
    ELSE IF path = <<"$">>
         THEN JObj(ObjectAssign(bodyObj.kv, paramsToInject))
    ELSE LET name == SubSeq(path, 3, Len(path))
         IN  IF /\ startsWith(path, <<"$", ".">>)
                /\ HasKey(bodyObj.kv, name)
                /\ KeyValue(bodyObj.kv, name).t = "obj"
             THEN JObj(SetKey(bodyObj.kv, name,
                              JObj(ObjectAssign(KeyValue(bodyObj.kv, name).kv,
                                                paramsToInject))))
             ELSE bodyObj

\* the try block of handleJSONBody after its first statement: parsed is
\* [ok, v], the outcome of JSON.parse(originalBody) (or {} for an empty body);
\* f.err is the error the block raises
InjectIntoJSON(f, r, parameters, parsed) ==
    LET bodyObj == parsed.v
        jsonPath == IF startsWith(config.jsonBodyPath, <<"$">>)
                    THEN config.jsonBodyPath
                    ELSE <<"$", ".">> \o config.jsonBodyPath
    IN  IF ~parsed.ok THEN Throw(f, "SyntaxError")
        \* bodyObj[p.name] = p.value throws on null and, the class body being
        \* strict code, on a number, a string and a boolean
        ELSE IF config.jsonBodyPath = <<>> /\ bodyObj.t # "obj" /\ parameters # <<>>
             THEN Throw(f, "TypeError")
        ELSE SetHeader(
                 [f EXCEPT !.req[r].body = JSONstringify(
                     IF config.jsonBodyPath # <<>>
                     THEN AssignAtPath(bodyObj, jsonPath, InjectKeys(<<>>, parameters))
                     ELSE IF bodyObj.t = "obj"
                          THEN JObj(InjectKeys(bodyObj.kv, parameters))
                          ELSE bodyObj)],
                 r, S_contentType, <<S_applicationJson>>)

handleJSONBodyTry(f, r, parameters, originalBody) ==
    InjectIntoJSON(f, r, parameters,
                   IF originalBody # <<>> THEN JSONparse(originalBody)
                   ELSE [ok |-> TRUE, v |-> JObj(<<>>)])

\* the catch block of handleJSONBody: g is the frame the try block left
Rethrow(f, g) ==
    IF g.err # NULL THEN Throw(f, "Failed to handle JSON body: " \o g.err) ELSE g

\* a catch block that does not rethrow
Swallow(f, g) == IF g.err # NULL THEN f ELSE g

\* handleJSONBody with the catch block that does not rethrow
handleJSONBodySwallowing(f, r, parameters, originalBody) ==
    Swallow(f, handleJSONBodyTry(f, r, parameters, originalBody))

handleJSONBody(f, r, parameters, originalBody) ==
    Rethrow(f, handleJSONBodyTry(f, r, parameters, originalBody))

handleQueryBody(f, r, parameters, originalBody) ==
    LET existingParams == IF originalBody # <<>> THEN originalBody \o S_amp ELSE <<>>
        newParams == EncodePairs(parameters)
    IN  SetHeader([f EXCEPT !.req[r].body = existingParams \o newParams],
                  r, S_contentType, <<S_applicationForm>>)

LineTerminators == {"\r", "\n"}

\* originalContentType.match(/boundary=(.+)/): [ok, group1]
BoundaryMatch(ct) ==
    LET n == Len(S_boundaryEq)
        starts == {i \in 1..Len(ct) :
                      /\ OccursAt(ct, S_boundaryEq, i)
                      /\ i + n <= Len(ct)
                      /\ ct[i + n] \notin LineTerminators}
        first == CHOOSE i \in starts : \A j \in starts : i <= j
        stop == CHOOSE e \in (first + n)..Len(ct) :
                    /\ \A k \in (first + n)..e : ct[k] \notin LineTerminators
                    /\ e = Len(ct) \/ ct[e + 1] \in LineTerminators
    IN  IF starts = {} THEN [ok |-> FALSE, group1 |-> <<>>]
        ELSE [ok |-> TRUE, group1 |-> SubSeq(ct, first + n, stop)]

RECURSIVE MultipartParts(_, _)
MultipartParts(boundary, parameters) ==
    IF parameters = <<>> THEN <<>>
    ELSE S_dashes \o boundary \o S_CRLF \o S_partHeader \o Head(parameters).name
             \o S_partSep \o Head(parameters).value \o S_CRLF
             \o MultipartParts(boundary, Tail(parameters))

handleMultipartBody(f, r, parameters, originalBody) ==
    LET originalContentType == FirstHeaderValue(f, r, S_ContentType)
        boundaryMatch == BoundaryMatch(originalContentType)
        boundary == boundaryMatch.group1
        finalBoundary == S_dashes \o boundary \o S_dashes
        finalIndex == indexOf(originalBody, finalBoundary) - 1
        upTo == slice(originalBody, 0, finalIndex)
        bodyUpToFinalBoundary ==
            IF endsWith(upTo, S_CRLF) THEN upTo ELSE upTo \o S_CRLF
    IN  IF originalContentType = <<>> THEN Throw(f, "Missing Content-Type header")
        ELSE IF ~boundaryMatch.ok THEN Throw(f, "Missing multipart boundary")
        ELSE IF finalIndex = -1
             THEN Throw(f, "Invalid multipart body: cannot find final boundary")
        ELSE [SetHeader([f EXCEPT !.req[r].body =
                            bodyUpToFinalBoundary
                                \o MultipartParts(boundary, parameters)
                                \o finalBoundary],
                        r, S_ContentType, <<originalContentType>>)
                EXCEPT !.multipartBoundary = boundary]

(***************************************************************************)
(* Format detection and the body surface                                   *)
(***************************************************************************)
\* the content-type branch of determineBodyType: the format it assigns, or
\* the format already held when no branch is taken
DeclaredType(bt, contentType) ==
    IF contentType = <<>> THEN bt
    ELSE IF includes(contentType, S_applicationJson) THEN "json"
    ELSE IF includes(contentType, S_applicationForm) THEN "query"
    ELSE IF includes(contentType, S_multipartFormData) THEN "multipart"
    ELSE IF includes(contentType, S_applicationXml) \/ includes(contentType, S_textXml)
         THEN "xml"
    ELSE bt

\* the sniffing branch of determineBodyType, g the frame after the
\* content-type branch
SniffBody(g, body) ==
    IF g.bodyType = NULL
    THEN IF isJSONBody(body) THEN [g EXCEPT !.bodyType = "json"]
         ELSE IF isQueryBody(body) THEN [g EXCEPT !.bodyType = "query"]
         ELSE IF isXMLBody(body) THEN [g EXCEPT !.bodyType = "xml"]
         ELSE Throw(g, "Unsupported body type detected.")
    ELSE g

\* the content-type branch run on the frame the sniffing branch left
DeclareAfterSniff(g, contentType) ==
    IF g.err = NULL THEN g
    ELSE IF DeclaredType(NULL, contentType) # NULL
         THEN [g EXCEPT !.err = NULL, !.bodyType = DeclaredType(NULL, contentType)]
         ELSE g

\* determineBodyType sniffing the body before it reads the content-type
determineBodyTypeSniffFirst(f, body, contentType) ==
    DeclareAfterSniff(SniffBody([f EXCEPT !.detectRan = TRUE], body), contentType)

determineBodyType(f, body, contentType) ==
    SniffBody([f EXCEPT !.detectRan = TRUE,
                        !.bodyType = DeclaredType(f.bodyType, contentType)],
              body)

\* the switch of handleBodyParameters, g the frame after detection
EncodeBody(g, r, parameters, originalBody) ==
    IF g.err # NULL THEN g
    ELSE CASE g.bodyType = "json" -> handleJSONBody(g, r, parameters, originalBody)
           [] g.bodyType = "query" -> handleQueryBody(g, r, parameters, originalBody)
           [] g.bodyType = "multipart" ->
                  handleMultipartBody(g, r, parameters, originalBody)
           [] OTHER -> Throw(g, "Unsupported body type.")

\* handleBodyParameters without the guard on this.bodyType
handleBodyParametersRedetecting(f, r, parameters) ==
    EncodeBody(determineBodyType(f, f.req[r].body,
                                 toLowerCase(FirstHeaderValue(f, r, S_ContentType))),
               r, parameters, f.req[r].body)

handleBodyParameters(f, r, parameters) ==
    EncodeBody(IF f.bodyType = NULL
               THEN determineBodyType(f, f.req[r].body,
                        toLowerCase(FirstHeaderValue(f, r, S_ContentType)))
               ELSE f,
               r, parameters, f.req[r].body)

updateContentLength(f, r) ==
    LET contentLength == Len(f.req[r].body)
    IN  IF contentLength = 0
        THEN DeleteHeader(f, r, S_ContentLength)
        ELSE SetHeader(f, r, S_ContentLength, <<toString(contentLength)>>)

(***************************************************************************)
(* sendRequestWithParams up to its first await                             *)
(***************************************************************************)
CacheBusterEnabled == config.cacheBusterParameter \/ config.addCacheBusterParameter

\* the switch on attackType with the cache buster added before the injection
AttackSwitchBusterFirst(f, r, parameters, t1, t2) ==
    CASE config.attackType = "query" ->
             IF CacheBusterEnabled
             THEN handleQueryParameters(handleCacheBusterParameter(f, r, t1, t2),
                                        r, parameters)
             ELSE handleQueryParameters(f, r, parameters)
      [] config.attackType = "headers" ->
             IF CacheBusterEnabled
             THEN handleHeaderParameters(handleCacheBusterParameter(f, r, t1, t2),
                                         r, parameters)
             ELSE handleHeaderParameters(f, r, parameters)
      [] config.attackType = "body" -> handleBodyParameters(f, r, parameters)

\* lines 279-297
AttackSwitch(f, r, parameters, t1, t2) ==
    CASE config.attackType = "query" ->
             IF CacheBusterEnabled
             THEN handleCacheBusterParameter(handleQueryParameters(f, r, parameters),
                                             r, t1, t2)
             ELSE handleQueryParameters(f, r, parameters)
      [] config.attackType = "headers" ->
             IF CacheBusterEnabled
             THEN handleCacheBusterParameter(handleHeaderParameters(f, r, parameters),
                                             r, t1, t2)
             ELSE handleHeaderParameters(f, r, parameters)
      [] config.attackType = "body" -> handleBodyParameters(f, r, parameters)

\* lines 299-302, f the frame the switch left
ContentLengthStep(f) ==
    IF f.err # NULL THEN f
    ELSE IF config.updateContentLength THEN updateContentLength(f, CopyRef)
    ELSE f

\* lines 261-302: the frame when the request copy is handed to sendRequest,
\* or when an Error leaves the function
PrepareRequest(request, parameters, context, id, t1, t2) ==
    ContentLengthStep(
        AttackSwitch(CloneRequest(Frame(request, bodyType, multipartBoundary),
                                  id, context),
                     CopyRef, parameters, t1, t2))

(***************************************************************************)
(* Bounds and inputs                                                       *)
(***************************************************************************)
MaxCalls == 2     \* sendRequestWithParams calls of one Requester
MaxClock == 2     \* readings of Date.now() are 1..MaxClock

Min(a, b) == IF a < b THEN a ELSE b

Booleans == {TRUE, FALSE}

AttackTypes == {"query", "headers", "body"}

\* context?: RequestContext; NULL is the omitted argument
Contexts == {NULL, "discovery", "learning"}

\* config.jsonBodyPath: <<>> is the unset (or empty, equally falsy) path
JsonBodyPaths == {<<>>, <<"d", "a", "t", "a">>}

\* the path is read by the JSON encoder alone, so it varies with the body
\* surface only
Configs ==
    {c \in [attackType : AttackTypes,
            cacheBusterParameter : Booleans,
            addCacheBusterParameter : Booleans,
            updateContentLength : Booleans,
            autopilotEnabled : Booleans,
            jsonBodyPath : JsonBodyPaths] :
        c.attackType # "body" => c.jsonBodyPath = <<>>}

SessionConfigs ==
    {c \in Configs : /\ ~c.cacheBusterParameter
                     /\ c.updateContentLength
                     /\ c.jsonBodyPath = <<>>}

S_textPlain == <<"t", "e", "x", "t", "/", "p", "l", "a", "i", "n">>
S_TextXml == <<"T", "e", "x", "t", "/", "X", "M", "L">>
S_multipartX == S_multipartFormData \o <<";", " ">> \o S_boundaryEq \o <<"X">>
S_multipartY == S_multipartFormData \o <<";", " ">> \o S_boundaryEq \o <<"Y">>

B_empty == <<>>
B_json == <<"{", "\"", "d", "a", "t", "a", "\"", ":", "{", "}", "}">>
B_number == <<"1">>
B_form == <<"a", "=", "1">>
B_xml == <<"<", "a", ">">>
B_multiX == <<"-", "-", "X", "-", "-">>
B_multiXpart == <<"z", "\r", "\n", "-", "-", "X", "-", "-">>
B_multiY == <<"-", "-", "Y", "-", "-">>
B_accented == <<"U+00E9">>

Bodies ==
    {B_empty, B_json, B_number, B_form, B_xml, B_multiX, B_multiXpart, B_accented}

NoHeaders == <<>>
H_json == (S_ContentType :> <<S_applicationJson>>)
H_form == (S_ContentType :> <<S_applicationForm>>)
H_multiX == (S_ContentType :> <<S_multipartX>>)
H_multiY == (S_ContentType :> <<S_multipartY>>)
H_multiNoBoundary == (S_ContentType :> <<S_multipartFormData>>)
H_xml == (S_ContentType :> <<S_TextXml>>)
H_plain == (S_ContentType :> <<S_textPlain>>) @@ (S_ContentLength :> <<<<"9">>>>)

HeaderSets == {NoHeaders, H_json, H_form, H_multiX, H_multiNoBoundary, H_xml, H_plain}

Q_base == <<"q", "=", "1">>

\* a request as its caller holds it
BaseRequest(query, body, headers) ==
    [id |-> <<"base">>, context |-> "learning",
     query |-> query, body |-> body, headers |-> headers]

\* the requests of a single call: every body under every header set on the
\* body surface; on the other two surfaces, where the body is not parsed, two
\* bodies under three header sets with and without a query string
Requests(attackType) ==
    IF attackType = "body"
    THEN {BaseRequest(<<>>, b, h) : b \in Bodies, h \in HeaderSets}
    ELSE {BaseRequest(q, b, h) : q \in {<<>>, Q_base},
                                 b \in {B_empty, B_accented},
                                 h \in {NoHeaders, H_json, H_plain}}

\* the requests of a session of several calls
SessionRequests ==
    {BaseRequest(Q_base, B_json, H_json), BaseRequest(<<>>, B_form, H_form),
     BaseRequest(<<>>, B_multiX, H_multiX), BaseRequest(<<>>, B_multiY, H_multiY),
     BaseRequest(<<>>, B_xml, H_xml), BaseRequest(<<>>, B_accented, NoHeaders)}

Param(name, value) == [name |-> name, value |-> value]

Batches ==
    {<<>>,
     <<Param(<<"a">>, <<"U+00E9">>)>>,
     <<Param(<<"c", "b", "1">>, <<"1">>), Param(<<"b">>, <<"1", " ", "2">>)>>}

SessionBatches == {<<Param(<<"a">>, <<"1">>)>>}

\* the states a Requester can be in before a call: fresh, or with the
\* format (and boundary) an earlier call of the session left behind
InstanceStates ==
    {<<NULL, NoBoundary>>, <<"json", NoBoundary>>, <<"query", NoBoundary>>,
     <<"xml", NoBoundary>>, <<"multipart", NoBoundary>>, <<"multipart", <<"X">>>>}

(***************************************************************************)
(* Calls.  calls[c] is                                                     *)
(*   pc        "idle" (not made yet), "sending" (awaiting sendRequest),    *)
(*             "autopilot" (awaiting autopilotCheckResponse), "returned",  *)
(*             "failed" (an Error reached the caller)                      *)
(*   context   the context argument                                        *)
(*   sent      [id, context] of the request handed to sendRequest          *)
(*   sends, callbacks   how often sendRequest and autopilotCheckResponse   *)
(*             were invoked for the call                                   *)
(*   response  what sendRequest resolved to; result: what the call         *)
(*             returned; logged: whether console.log was called            *)
(***************************************************************************)
NoId == <<>>
NoResponse == [requestId |-> NoId]

IdleCall ==
    [pc |-> "idle", context |-> NULL, sent |-> [id |-> NoId, context |-> NULL],
     sends |-> 0, callbacks |-> 0, response |-> NoResponse, result |-> NoResponse,
     logged |-> FALSE]

NoRequest == BaseRequest(<<>>, <<>>, <<>>)

NoLast ==
    [call |-> 0, request |-> NoRequest, parameters |-> <<>>, context |-> NULL,
     after |-> NoRequest, copy |-> NoRequest, err |-> NULL, detectRan |-> FALSE,
     cb |-> <<>>, bodyTypeBefore |-> NULL, boundaryBefore |-> NoBoundary]

\* generateID(): an identifier no other request carries
generateID(c) == <<"id", c>>

\* sendRequest(sdk, requestCopy): the response to the request it was given
sendRequest(sent) == [requestId |-> sent.id]

Init ==
    /\ config \in SessionConfigs
    /\ bodyType = NULL
    /\ multipartBoundary = NoBoundary
    /\ now = 1
    /\ calls = [c \in 1..MaxCalls |-> IdleCall]
    /\ last = NoLast

OneCallInit ==
    /\ config \in Configs
    /\ \E st \in InstanceStates :
          /\ config.attackType # "body" => st = <<NULL, NoBoundary>>
          /\ bodyType = st[1]
          /\ multipartBoundary = st[2]
    /\ now = 1
    /\ calls = [c \in 1..MaxCalls |-> IdleCall]
    /\ last = NoLast

\* the state call c leaves at its first await (sendRequest invoked with the
\* copy) or at its Error, f being the frame of its synchronous part
Suspend(c, request, parameters, context, t1, t2, f) ==
    /\ f.cb = <<>> => (t1 = now /\ t2 = now)
    /\ bodyType' = f.bodyType
    /\ multipartBoundary' = f.multipartBoundary
    /\ now' = t2
    /\ calls' = [calls EXCEPT ![c] =
          IF f.err # NULL
          THEN [@ EXCEPT !.pc = "failed", !.context = context]
          ELSE [@ EXCEPT !.pc = "sending", !.context = context,
                         !.sent = [id |-> f.req[CopyRef].id,
                                   context |-> f.req[CopyRef].context],
                         !.sends = @ + 1]]
    /\ last' = [call |-> c, request |-> request, parameters |-> parameters,
                context |-> context, after |-> Deref(f, CallerRef),
                copy |-> Deref(f, CopyRef), err |-> f.err, detectRan |-> f.detectRan,
                cb |-> f.cb, bodyTypeBefore |-> bodyType,
                boundaryBefore |-> multipartBoundary]

\* lines 256-304: a call from its start to its first await, or to its Error
sendRequestWithParams(c, reqs, batches) ==
    /\ calls[c].pc = "idle"
    /\ \A d \in 1..(c - 1) : calls[d].pc # "idle"
    /\ \E request \in reqs, parameters \in batches, context \in Contexts,
          t1 \in now..Min(now + 1, MaxClock) :
       \E t2 \in t1..Min(t1 + 1, MaxClock) :
          Suspend(c, request, parameters, context, t1, t2,
                  PrepareRequest(request, parameters, context, generateID(c), t1, t2))
    /\ UNCHANGED config

\* lines 304-317: sendRequest resolves; the autopilot gate
SendRequestReturns(c) ==
    /\ calls[c].pc = "sending"
    /\ LET requestResponse == sendRequest(calls[c].sent)
       IN  calls' = [calls EXCEPT ![c] =
              IF config.autopilotEnabled /\ calls[c].context = "discovery"
              THEN [@ EXCEPT !.pc = "autopilot", !.response = requestResponse,
                             !.callbacks = @ + 1]
              ELSE [@ EXCEPT !.pc = "returned", !.response = requestResponse,
                             !.result = requestResponse]]
    /\ UNCHANGED <<config, bodyType, multipartBoundary, now, last>>

\* lines 308-317: autopilotCheckResponse resolves
AutopilotReturns(c) ==
    /\ calls[c].pc = "autopilot"
    /\ \E hasTakenAction \in Booleans :
          calls' = [calls EXCEPT ![c] =
              [@ EXCEPT !.pc = "returned", !.logged = hasTakenAction,
                        !.result = calls[c].response]]
    /\ UNCHANGED <<config, bodyType, multipartBoundary, now, last>>

Next ==
    \E c \in 1..MaxCalls :
        \/ sendRequestWithParams(c, SessionRequests, SessionBatches)
        \/ SendRequestReturns(c)
        \/ AutopilotReturns(c)

Spec == Init /\ [][Next]_vars

OneCallNext ==
    \/ sendRequestWithParams(1, Requests(config.attackType), Batches)
    \/ SendRequestReturns(1)
    \/ AutopilotReturns(1)

OneCallSpec == OneCallInit /\ [][OneCallNext]_vars

(***************************************************************************)
(* Properties                                                              *)
(***************************************************************************)
CallMade == last.call # 0
CallSent == CallMade /\ last.err = NULL

\* request.headers["Content-Type"]?.[0]?.toLowerCase() of the caller's request
DeclaredContentType(request) ==
    IF S_ContentType \in DOMAIN request.headers /\ request.headers[S_ContentType] # <<>>
    THEN toLowerCase(request.headers[S_ContentType][1])
    ELSE <<>>

\* the format a content-type declares, NULL when it declares none
FormatOfContentType(ct) ==
    IF includes(ct, S_applicationJson) THEN "json"
    ELSE IF includes(ct, S_applicationForm) THEN "query"
    ELSE IF includes(ct, S_multipartFormData) THEN "multipart"
    ELSE IF includes(ct, S_applicationXml) \/ includes(ct, S_textXml) THEN "xml"
    ELSE NULL

\* C1: once bodyType holds a format it never changes, and no later call runs
\* determineBodyType again, whatever the calls in flight and whatever format
\* the later call's body or Content-Type would be classified as.
C1_FormatDeterminedOnce ==
    [][bodyType # NULL =>
          /\ bodyType' = bodyType
          /\ last' # last => ~last'.detectRan]_vars

\* a second call made while the first is still awaiting sendRequest, with a
\* Content-Type that declares another format than the cached one
C1_Witness ==
    /\ last.call = 2
    /\ calls[1].pc = "sending"
    /\ last.bodyTypeBefore # NULL
    /\ FormatOfContentType(DeclaredContentType(last.request)) # NULL
    /\ FormatOfContentType(DeclaredContentType(last.request)) # last.bodyTypeBefore
    /\ bodyType = last.bodyTypeBefore

\* C2: the caller's request has the same id, query, body, header names and
\* header values after a call as before it, on every surface, under every
\* toggle, whether the call failed or not.
C2_CallerRequestUntouched ==
    CallMade =>
        /\ last.after.id = last.request.id
        /\ last.after.query = last.request.query
        /\ last.after.body = last.request.body
        /\ DOMAIN last.after.headers = DOMAIN last.request.headers
        /\ \A n \in DOMAIN last.request.headers :
              last.after.headers[n] = last.request.headers[n]

\* a header injection that overwrote a header of the copy and added a
\* cache buster and a Content-Length to it
C2_Witness ==
    /\ CallSent
    /\ config.attackType = "headers"
    /\ last.cb # <<>>
    /\ S_ContentLength \in DOMAIN last.request.headers
    /\ S_ContentLength \in DOMAIN last.copy.headers
    /\ last.copy.headers[S_ContentLength] # last.request.headers[S_ContentLength]
    /\ DOMAIN last.copy.headers # DOMAIN last.request.headers
    /\ last.copy.query # last.request.query

\* the conditions under which the body encoders raise an Error, read off the
\* caller's request and the format in effect
JSONEncodingFails(request, parameters) ==
    /\ request.body # <<>>
    /\ \/ ~isJSONBody(request.body)
       \/ /\ config.jsonBodyPath = <<>>
          /\ parameters # <<>>
          /\ JSONparse(request.body).v.t # "obj"

MultipartEncodingFails(request) ==
    LET ct == IF S_ContentType \in DOMAIN request.headers
                 /\ request.headers[S_ContentType] # <<>>
              THEN request.headers[S_ContentType][1] ELSE <<>>
    IN  \/ ct = <<>>
        \/ ~BoundaryMatch(ct).ok
        \/ ~includes(request.body,
                     S_dashes \o BoundaryMatch(ct).group1 \o S_dashes)

EncodingFails ==
    /\ config.attackType = "body"
    /\ \/ bodyType \notin {"json", "query", "multipart"}
       \/ bodyType = "json" /\ JSONEncodingFails(last.request, last.parameters)
       \/ bodyType = "multipart" /\ MultipartEncodingFails(last.request)

\* C3: a call whose body encoding fails ends with the Error at the caller,
\* sendRequest and autopilotCheckResponse never invoked; every other call
\* invokes sendRequest exactly once, with the mutated copy, and returns the
\* response sendRequest gave for it.
C3_FailOrSendOnce ==
    CallMade =>
        LET call == calls[last.call]
        IN  /\ EncodingFails <=> last.err # NULL
            /\ last.err # NULL <=> call.pc = "failed"
            /\ call.pc = "failed" =>
                  call.sends = 0 /\ call.callbacks = 0 /\ call.result = NoResponse
            /\ call.pc # "failed" =>
                  /\ call.sends = 1
                  /\ call.sent.id = last.copy.id
                  /\ last.copy.id # last.request.id
            /\ call.pc = "returned" =>
                  /\ call.response = sendRequest(call.sent)
                  /\ call.result = call.response

\* a JSON body that does not parse: the call failed before any send
C3_Witness ==
    /\ CallMade
    /\ bodyType = "json"
    /\ ~isJSONBody(last.request.body)
    /\ last.request.body # <<>>
    /\ calls[last.call].pc = "failed"

\* C4: a body-surface call that fails leaves bodyType and multipartBoundary
\* as they were, and a call made after a failed one with a well-formed
\* request of a supported format does not fail.
C4_FailedCallLeavesCache ==
    (CallMade /\ config.attackType = "body") =>
        LET fmt == FormatOfContentType(DeclaredContentType(last.request))
            wellFormedSupported ==
                \/ fmt = "json" /\ isJSONBody(last.request.body)
                                /\ JSONparse(last.request.body).v.t = "obj"
                \/ fmt = "query"
                \/ fmt = "multipart" /\ ~MultipartEncodingFails(last.request)
        IN  /\ last.err # NULL =>
                  /\ bodyType = last.bodyTypeBefore
                  /\ multipartBoundary = last.boundaryBefore
            /\ ( /\ last.call > 1
                 /\ \A d \in 1..(last.call - 1) : calls[d].pc = "failed"
                 /\ wellFormedSupported ) => last.err = NULL

\* C5: autopilotCheckResponse runs exactly once for a call when
\* autopilotEnabled is on and the request handed to sendRequest carries the
\* "discovery" context, and not at all otherwise; it runs after sendRequest
\* has resolved and before the call returns.
C5_CallbackIffDiscovery ==
    \A c \in 1..MaxCalls :
        /\ calls[c].pc = "returned" =>
              calls[c].callbacks =
                  IF config.autopilotEnabled /\ calls[c].sent.context = "discovery"
                  THEN 1 ELSE 0
        /\ calls[c].pc \in {"idle", "sending", "failed"} => calls[c].callbacks = 0
        /\ calls[c].callbacks > 0 => calls[c].response # NoResponse

\* the pairs of a query string
RECURSIVE SplitAmp(_, _)
SplitAmp(q, acc) ==
    IF q = <<>> THEN <<acc>>
    ELSE IF Head(q) = "&" THEN <<acc>> \o SplitAmp(Tail(q), <<>>)
    ELSE SplitAmp(Tail(q), Append(acc, Head(q)))

LastPair(q) == LET pairs == SplitAmp(q, <<>>) IN pairs[Len(pairs)]

\* the query string the primary injection leaves
PrimaryQuery ==
    IF config.attackType = "query"
    THEN IF last.request.query # <<>>
         THEN last.request.query \o S_amp \o EncodePairs(last.parameters)
         ELSE EncodePairs(last.parameters)
    ELSE last.request.query

\* C6: the cache buster is added exactly when the surface is query or headers
\* and a cache-buster toggle is on; when added it is the last pair of the
\* query string sent, after everything the primary injection left.
C6_CacheBusterLast ==
    CallMade =>
        /\ last.cb # <<>> <=>
              /\ config.attackType \in {"query", "headers"}
              /\ config.cacheBusterParameter \/ config.addCacheBusterParameter
        /\ last.cb # <<>> =>
              /\ startsWith(last.cb, S_cb)
              /\ LastPair(last.copy.query) = last.cb
              /\ last.copy.query =
                    IF PrimaryQuery = <<>> THEN last.cb
                    ELSE PrimaryQuery \o S_amp \o last.cb
        /\ last.cb = <<>> => last.copy.query = PrimaryQuery

\* a candidate parameter with the very name of the cache buster
C6_Witness ==
    /\ CallSent
    /\ config.attackType = "query"
    /\ last.cb # <<>>
    /\ \E i \in DOMAIN last.parameters :
          startsWith(last.cb, last.parameters[i].name \o S_eq)

\* C7: with updateContentLength on, the request sent carries no
\* Content-Length header when its body is empty, and otherwise the single
\* value that is the byte length of the body sent.
C7_ContentLengthIsByteLength ==
    (CallSent /\ config.updateContentLength) =>
        IF last.copy.body = <<>>
        THEN S_ContentLength \notin DOMAIN last.copy.headers
        ELSE /\ S_ContentLength \in DOMAIN last.copy.headers
             /\ last.copy.headers[S_ContentLength]
                   = <<toString(byteLength(last.copy.body))>>

C9_BoundaryWrittenOnce ==
    [][multipartBoundary # NoBoundary => multipartBoundary' = multipartBoundary]_vars

\* C10: after a body injection the request sent declares the content-type
\* of the encoder that produced its body, and no header named content-type
\* (letter case ignored) carries another value.
C10_SingleContentType ==
    (CallSent /\ config.attackType = "body") =>
        LET expected ==
                CASE bodyType = "json" -> S_applicationJson
                  [] bodyType = "query" -> S_applicationForm
                  [] bodyType = "multipart" -> last.request.headers[S_ContentType][1]
            named == {n \in DOMAIN last.copy.headers : toLowerCase(n) = S_contentType}
        IN  /\ named # {}
            /\ \A n \in named : last.copy.headers[n] = <<expected>>

====
